---- MODULE Spec2Model ----
(***************************************************************************)
(* Model of the AIDA question-processing pipeline (agent.py) together with *)
(* the LLM handlers (llm_handler_simple.py, llm_handler_fallback.py) and   *)
(* the chart heuristic (visualization.py).                                 *)
(*                                                                         *)
(* Conventions.  A Python string is a sequence of text chunks, "" is <<>>  *)
(* and f-string concatenation is \o.  An Optional[str] is a record         *)
(* [some, text].  A float confidence c is the integer 100*c.  A DataFrame  *)
(* is a record [rows, cols] with cols the sequence of column dtypes.  A    *)
(* Python call either returns or raises: [kind |-> "return"/"raise", ...]. *)
(***************************************************************************)
EXTENDS Integers, Sequences, FiniteSets, TLC

VARIABLES pc, state, calls, llm, handler, invocations, trail, returned, inflight,
          viz, session, built, trunc

\* What the functions checked on their own work on: the pipeline leaves
\* these alone.
units == <<viz, session, built, trunc>>

vars == <<pc, state, calls, llm, handler, invocations, trail, returned, inflight,
          units>>

(* ------------------------------ bounds --------------------------------- *)

MaxInvocations == 2

\* Cap on the nodes one invocation may run (the graph has six).
MaxTrail == 8

Questions == {<<"q1">>, <<"q2">>}

Causes == {<<"boom">>}

(* --------------------------- value domains ----------------------------- *)

EmptyDict == [k \in {} |-> TRUE]

None == "None"

NoneText == [some |-> FALSE, text |-> <<>>]

SomeText(t) == [some |-> TRUE, text |-> t]

\* Python truthiness of an Optional[str]: None and "" are both falsy.
Truthy(o) == o.some /\ o.text # <<>>

EmptyFrame == [rows |-> 0, cols |-> <<>>]

Ok(v) == [ok |-> TRUE, val |-> v, cause |-> <<>>]

Fail(c) == [ok |-> FALSE, val |-> <<>>, cause |-> c]

Return(v) == [kind |-> "return", val |-> v, exc |-> <<>>]

Raise(e) == [kind |-> "raise", val |-> <<>>, exc |-> e]

\* What the Schema Provider may answer: the table names, in dict order.
Schemas == {<<>>, <<"orders">>, <<"customers", "orders">>}

SchemaOutcomes == {Ok(s) : s \in Schemas} \cup {Fail(c) : c \in Causes}

Confidences == {0, 70, 71, 100}

SuggestedResponses == {NoneText, SomeText(<<>>), SomeText(<<"I can't answer that.">>)}

IntentResults ==
    [is_database_related : BOOLEAN, confidence : Confidences,
     reasoning : {<<"because">>}, suggested_response : SuggestedResponses]

IntentOutcomes == {Ok(i) : i \in IntentResults} \cup {Fail(c) : c \in Causes}

\* Raw texts the language model may answer to a SQL prompt: "FENCE" is the
\* three-backquote code fence, " " is white space.
RawSqls ==
    {<<"SELECT 1">>,
     <<"FENCE", "sql", " ", "SELECT 1", " ", "FENCE">>,
     <<"FENCE", " ", "SELECT 1", "FENCE">>}

LlmSqlOutcomes == {Ok(r) : r \in RawSqls} \cup {Fail(c) : c \in Causes}

LlmTextOutcomes == {Ok(<<"the analysis">>)} \cup {Fail(c) : c \in Causes}

Frames ==
    {EmptyFrame,
     [rows |-> 0, cols |-> <<"number">>],
     [rows |-> 2, cols |-> <<"object">>],
     [rows |-> 2, cols |-> <<"number">>],
     [rows |-> 2, cols |-> <<"number", "number">>],
     [rows |-> 2, cols |-> <<"object", "number">>],
     [rows |-> 51, cols |-> <<"object", "number">>],
     [rows |-> 51, cols |-> <<"category", "number", "number">>],
     [rows |-> 3, cols |-> <<"datetime64", "number">>]}

ExecOutcomes == {Ok(f) : f \in Frames} \cup {Fail(c) : c \in Causes}

\* The handler playing Query Generator / Result Analyzer: the llm_handler
\* module the agent imports (opaque), llm_handler_simple or llm_handler_fallback.
\* langchain is LANGCHAIN_AVAILABLE (simple) or use_langchain (fallback);
\* attrs are the instance attributes __init__ has set.
Handlers ==
    {[impl |-> "llm_handler", langchain |-> FALSE, attrs |-> {}],
     [impl |-> "simple", langchain |-> TRUE,
      attrs |-> {"chat_llm", "sql_llm", "analysis_llm", "sql_prompt", "analysis_prompt"}],
     [impl |-> "simple", langchain |-> FALSE, attrs |-> {"api_key", "base_url"}],
     [impl |-> "fallback", langchain |-> TRUE, attrs |-> {"llm", "use_langchain"}],
     [impl |-> "fallback", langchain |-> FALSE, attrs |-> {"client", "use_langchain"}]}

(* ----------------------------- text helpers ---------------------------- *)

RECURSIVE lstrip(_)
\* str.lstrip(): drop leading white space.
lstrip(s) == IF s # <<>> /\ Head(s) = " " THEN lstrip(Tail(s)) ELSE s

RECURSIVE rstrip(_)
\* str.rstrip(): drop trailing white space.
rstrip(s) ==
    IF s # <<>> /\ s[Len(s)] = " " THEN rstrip(SubSeq(s, 1, Len(s) - 1)) ELSE s

\* str.strip()
strip(s) == rstrip(lstrip(s))

\* s.startswith(p)
startswith(s, p) == Len(s) >= Len(p) /\ SubSeq(s, 1, Len(p)) = p

\* s.endswith(p)
endswith(s, p) == Len(s) >= Len(p) /\ SubSeq(s, Len(s) - Len(p) + 1, Len(s)) = p

\* s[n:] counted in chunks
DropFirst(s, n) == SubSeq(s, n + 1, Len(s))

\* s[:-n] counted in chunks
DropLast(s, n) == SubSeq(s, 1, Len(s) - n)

RECURSIVE join(_, _)
\* sep.join(items)
join(sep, items) ==
    IF items = <<>> THEN <<>>
    ELSE IF Len(items) = 1 THEN <<items[1]>>
    ELSE <<items[1], sep>> \o join(sep, Tail(items))

(* ----------------------- llm_handler_simple.py ------------------------- *)

\* One invocation of the language-model service, as logged in llm.
LlmEv(path, o) == [path |-> path, ok |-> o.ok]

\* The result of a handler method: what it returns or raises, and the
\* language-model invocations it made on the way.
HandlerResult(r, l) == [kind |-> r.kind, val |-> r.val, exc |-> r.exc, llm |-> l]

FromOutcome(o) == IF o.ok THEN Return(o.val) ELSE Raise(o.cause)

AttributeError(a) == <<"'LLMHandler' object has no attribute '", a, "'">>

\* The request is sent even though __init__ never set api_key.
make_openai_request_always_posts(h, o) ==
    HandlerResult(FromOutcome(o), <<LlmEv("http", o)>>)

\* LLMHandler._make_openai_request: the headers read self.api_key before
\* requests.post is reached; a non-200 status, an error body, a missing
\* choice or a transport fault all raise (outcome o not ok).
make_openai_request(h, o) ==
    IF "api_key" \notin h.attrs
    THEN HandlerResult(Raise(AttributeError("api_key")), <<>>)
    ELSE HandlerResult(FromOutcome(o), <<LlmEv("http", o)>>)

\* The clean-up of _generate_sql_http.
CleanSqlHttp(raw) ==
    LET s0 == strip(raw)
        s1 == IF startswith(s0, <<"FENCE", "sql">>) THEN DropFirst(s0, 2) ELSE s0
        s2 == IF startswith(s1, <<"FENCE">>) THEN DropFirst(s1, 1) ELSE s1
        s3 == IF endswith(s2, <<"FENCE">>) THEN DropLast(s2, 1) ELSE s2
    IN  strip(s3)

\* LLMHandler._generate_sql_http
simple_generate_sql_http(h, o) ==
    LET r == make_openai_request(h, o)
    IN  IF r.kind = "raise" THEN r ELSE [r EXCEPT !.val = CleanSqlHttp(r.val)]

\* LLMHandler._generate_sql_langchain: one sql_llm.invoke, faults re-raised.
simple_generate_sql_langchain(h, o) ==
    HandlerResult(FromOutcome(o), <<LlmEv("langchain", o)>>)

\* LLMHandler.generate_sql_query
simple_generate_sql_query(h, o1, o2) ==
    IF h.langchain
    THEN LET r1 == simple_generate_sql_langchain(h, o1)
             r2 == simple_generate_sql_http(h, o2)
         IN  IF r1.kind = "return" THEN r1
             ELSE [r2 EXCEPT !.llm = r1.llm \o r2.llm]
    ELSE LET r1 == simple_generate_sql_http(h, o1)
         IN  IF r1.kind = "return" THEN r1
             ELSE HandlerResult(Raise(<<"SQL generation failed: ">> \o r1.exc), r1.llm)

\* LLMHandler._analyze_data_langchain: one analysis_llm.invoke; the
\* structured answer is rendered and stripped.
simple_analyze_data_langchain(h, o) ==
    LET r == FromOutcome(o)
    IN  HandlerResult(IF r.kind = "return" THEN Return(strip(r.val)) ELSE r,
                      <<LlmEv("langchain", o)>>)

\* LLMHandler._analyze_data_http
simple_analyze_data_http(h, o) == make_openai_request(h, o)

\* LLMHandler.analyze_data
simple_analyze_data(h, o1, o2) ==
    IF h.langchain
    THEN LET r1 == simple_analyze_data_langchain(h, o1)
             r2 == simple_analyze_data_http(h, o2)
         IN  IF r1.kind = "return" THEN r1
             ELSE [r2 EXCEPT !.llm = r1.llm \o r2.llm]
    ELSE LET r1 == simple_analyze_data_http(h, o1)
         IN  IF r1.kind = "return" THEN r1
             ELSE HandlerResult(Raise(<<"Analysis failed: ">> \o r1.exc), r1.llm)

(* ---------------------- llm_handler_fallback.py ------------------------ *)

\* The clean-up shared by _generate_sql_langchain and _generate_sql_direct.
CleanSqlFallback(raw) ==
    LET s0 == strip(raw)
        s1 == IF startswith(s0, <<"FENCE", "sql">>) THEN DropFirst(s0, 2) ELSE s0
        s2 == IF endswith(s1, <<"FENCE">>) THEN DropLast(s1, 1) ELSE s1
    IN  strip(s2)

FallbackPath(h) == IF h.langchain THEN "langchain" ELSE "direct"

\* LLMHandler.generate_sql_query (fallback)
fallback_generate_sql_query(h, o) ==
    HandlerResult(IF o.ok THEN Return(CleanSqlFallback(o.val))
                  ELSE Raise(<<"LLM API call failed: ">> \o o.cause),
                  <<LlmEv(FallbackPath(h), o)>>)

\* LLMHandler.analyze_data (fallback): a fault of the model call is caught
\* and returned as the analysis text.
fallback_analyze_data(h, o) ==
    HandlerResult(IF o.ok THEN Return(strip(o.val))
                  ELSE Return(<<"Analysis failed: ">> \o o.cause),
                  <<LlmEv(FallbackPath(h), o)>>)

(* -------------------- the handler the agent holds ---------------------- *)

\* self.llm_handler.generate_sql_query(question, schema_info)
generate_sql_query(h, o1, o2) ==
    CASE h.impl = "simple" -> simple_generate_sql_query(h, o1, o2)
      [] h.impl = "fallback" -> fallback_generate_sql_query(h, o1)
      [] OTHER -> HandlerResult(FromOutcome(o1), <<LlmEv("llm_handler", o1)>>)

\* self.llm_handler.analyze_data(data_str, question)
analyze_data(h, o1, o2) ==
    CASE h.impl = "simple" -> simple_analyze_data(h, o1, o2)
      [] h.impl = "fallback" -> fallback_analyze_data(h, o1)
      [] OTHER -> HandlerResult(FromOutcome(o1), <<LlmEv("llm_handler", o1)>>)

(* -------------------------- visualization.py -------------------------- *)

MaxBarRows == 50

\* df.select_dtypes(include=kinds).columns.tolist(), as column positions
select_dtypes(df, kinds) == {i \in 1..Len(df.cols) : df.cols[i] \in kinds}

\* df.empty: no row or no column
empty(df) == df.rows = 0 \/ Len(df.cols) = 0

\* auto_visualize with the bar chart rule tried before the line chart rule.
auto_visualize_bar_first(df, vo) ==
    LET numeric_cols == select_dtypes(df, {"number"})
        categorical_cols == select_dtypes(df, {"object", "category"})
        datetime_cols == select_dtypes(df, {"datetime64"})
        chart == IF categorical_cols # {} /\ numeric_cols # {}
                    /\ df.rows <= MaxBarRows THEN "bar"
                 ELSE IF datetime_cols # {} /\ numeric_cols # {} THEN "line"
                 ELSE IF Cardinality(numeric_cols) >= 2 THEN "scatter"
                 ELSE IF Cardinality(numeric_cols) = 1 THEN "histogram"
                 ELSE None
    IN  IF empty(df) THEN Return(None)
        ELSE IF chart = None THEN Return(None)
        ELSE IF vo.ok THEN Return(chart)
        ELSE Raise(vo.cause)

\* VisualizationManager.auto_visualize; vo tells whether plotly renders the
\* chosen chart or raises.  No plotly call is made when no chart is chosen.
auto_visualize(df, vo) ==
    LET numeric_cols == select_dtypes(df, {"number"})
        categorical_cols == select_dtypes(df, {"object", "category"})
        datetime_cols == select_dtypes(df, {"datetime64"})
        chart == IF datetime_cols # {} /\ numeric_cols # {} THEN "line"
                 ELSE IF categorical_cols # {} /\ numeric_cols # {}
                         /\ df.rows <= MaxBarRows THEN "bar"
                 ELSE IF Cardinality(numeric_cols) >= 2 THEN "scatter"
                 ELSE IF Cardinality(numeric_cols) = 1 THEN "histogram"
                 ELSE None
    IN  IF empty(df) THEN Return(None)
        ELSE IF chart = None THEN Return(None)
        ELSE IF vo.ok THEN Return(chart)
        ELSE Raise(vo.cause)

VizOutcomes == {Ok(<<>>)} \cup {Fail(c) : c \in Causes}

(* ------------------------------ agent.py ------------------------------- *)

END == "end"

HighConfidence == 70

\* process_question: the initial AgentState
initial_state(q) ==
    [question |-> q, schema_info |-> <<>>, intent |-> EmptyDict, sql_query |-> <<>>,
     query_results |-> EmptyFrame, analysis |-> <<>>, visualization |-> None,
     error |-> <<>>]

\* One call of a collaborator by a stage, as logged in calls.
CallEv(who, arg, r) ==
    [who |-> who, arg |-> arg, raised |-> r.kind = "raise", exc |-> r.exc,
     ret |-> r.val]

\* query_results.to_string(): the rendering keeps the shape of the frame,
\* not the dtypes of its columns.
to_string(df) == [rows |-> df.rows, ncols |-> Len(df.cols)]

\* The language-model invocations of one stage, as logged in llm.
StageLlm(stage, l) ==
    [i \in 1..Len(l) |-> [stage |-> stage, path |-> l[i].path, ok |-> l[i].ok]]

\* What running a node function gives: it returns the state (or raises),
\* having made the logged calls.
StageResult(st, cs, l) == [kind |-> "return", state |-> st, calls |-> cs, llm |-> l]

StageRaise(st, cs, l) == [kind |-> "raise", state |-> st, calls |-> cs, llm |-> l]

\* state.get("error") is truthy
HasError(st) == st.error # <<>>

\* get_schema
get_schema(st, out) ==
    LET r == FromOutcome(out)
    IN  StageResult(
            IF r.kind = "return" THEN [st EXCEPT !.schema_info = r.val]
            ELSE [st EXCEPT !.error = <<"Schema retrieval failed: ">> \o r.exc],
            <<CallEv("SchemaProvider", <<>>, r)>>, <<>>)

\* The templated answer of classify_intent to a question that is not about
\* the database.
FallbackMessage(st) ==
    <<"I'm an AI Data Analyst specialized in analyzing database information. ",
      "Your question '">> \o st.question
    \o <<"' appears to be a general question that doesn't relate to the available data in our database. ",
         "I can help you analyze data from our database which contains information about ">>
    \o (IF st.schema_info # <<>> THEN join(", ", st.schema_info)
        ELSE <<"various business entities">>)
    \o <<". ", "Please ask questions about the data in our database, such as showing records, calculating totals, or finding patterns in the data.">>

\* A successful classification also resets error.
classify_intent_clears_error(st, out) ==
    LET r == FromOutcome(out)
        intent_result == r.val
        response == IF Truthy(intent_result.suggested_response)
                    THEN intent_result.suggested_response.text
                    ELSE FallbackMessage(st)
        st1 == [st EXCEPT !.intent = intent_result, !.error = <<>>]
        st2 == IF ~intent_result.is_database_related
               THEN [st1 EXCEPT !.analysis = response] ELSE st1
    IN  StageResult(
            IF r.kind = "return" THEN st2
            ELSE [st EXCEPT !.error = <<"Intent classification failed: ">> \o r.exc],
            <<CallEv("IntentClassifier",
                     [question |-> st.question, schema_info |-> st.schema_info], r)>>,
            StageLlm("classify_intent", <<LlmEv("llm_handler", out)>>))

\* The supplied response is tested with "is not None" instead of truthiness.
classify_intent_none_only(st, out) ==
    LET r == FromOutcome(out)
        intent_result == r.val
        response == IF intent_result.suggested_response.some
                    THEN intent_result.suggested_response.text
                    ELSE FallbackMessage(st)
        st1 == [st EXCEPT !.intent = intent_result]
        st2 == IF ~intent_result.is_database_related
               THEN [st1 EXCEPT !.analysis = response] ELSE st1
    IN  StageResult(
            IF r.kind = "return" THEN st2
            ELSE [st EXCEPT !.error = <<"Intent classification failed: ">> \o r.exc],
            <<CallEv("IntentClassifier",
                     [question |-> st.question, schema_info |-> st.schema_info], r)>>,
            StageLlm("classify_intent", <<LlmEv("llm_handler", out)>>))

\* classify_intent: no guard on state["error"]
classify_intent(st, out) ==
    LET r == FromOutcome(out)
        intent_result == r.val
        response == IF Truthy(intent_result.suggested_response)
                    THEN intent_result.suggested_response.text
                    ELSE FallbackMessage(st)
        st1 == [st EXCEPT !.intent = intent_result]
        st2 == IF ~intent_result.is_database_related
               THEN [st1 EXCEPT !.analysis = response] ELSE st1
    IN  StageResult(
            IF r.kind = "return" THEN st2
            ELSE [st EXCEPT !.error = <<"Intent classification failed: ">> \o r.exc],
            <<CallEv("IntentClassifier",
                     [question |-> st.question, schema_info |-> st.schema_info], r)>>,
            StageLlm("classify_intent", <<LlmEv("llm_handler", out)>>))

\* The generator is called outside any try block.
generate_sql_uncaught(st, h, o1, o2) ==
    LET r == generate_sql_query(h, o1, o2)
    IN  IF HasError(st) THEN StageResult(st, <<>>, <<>>)
        ELSE IF r.kind = "return"
             THEN StageResult([st EXCEPT !.sql_query = r.val],
                              <<CallEv("QueryGenerator",
                                       [question |-> st.question,
                                        schema_info |-> st.schema_info], r)>>,
                              StageLlm("generate_sql", r.llm))
             ELSE StageRaise(st, <<CallEv("QueryGenerator",
                                      [question |-> st.question,
                                       schema_info |-> st.schema_info], r)>>,
                             StageLlm("generate_sql", r.llm))

\* The generator is given an empty schema instead of state["schema_info"].
generate_sql_without_schema(st, h, o1, o2) ==
    LET r == generate_sql_query(h, o1, o2)
    IN  IF HasError(st) THEN StageResult(st, <<>>, <<>>)
        ELSE StageResult(
                IF r.kind = "return" THEN [st EXCEPT !.sql_query = r.val]
                ELSE [st EXCEPT !.error = <<"SQL generation failed: ">> \o r.exc],
                <<CallEv("QueryGenerator",
                         [question |-> st.question, schema_info |-> <<>>],
                         r)>>,
                StageLlm("generate_sql", r.llm))

\* generate_sql
generate_sql(st, h, o1, o2) ==
    LET r == generate_sql_query(h, o1, o2)
    IN  IF HasError(st) THEN StageResult(st, <<>>, <<>>)
        ELSE StageResult(
                IF r.kind = "return" THEN [st EXCEPT !.sql_query = r.val]
                ELSE [st EXCEPT !.error = <<"SQL generation failed: ">> \o r.exc],
                <<CallEv("QueryGenerator",
                         [question |-> st.question, schema_info |-> st.schema_info],
                         r)>>,
                StageLlm("generate_sql", r.llm))

\* Storing the result also resets analysis.
execute_query_resets_analysis(st, out) ==
    LET r == FromOutcome(out)
    IN  IF HasError(st) THEN StageResult(st, <<>>, <<>>)
        ELSE StageResult(
                IF r.kind = "return"
                THEN [st EXCEPT !.query_results = r.val, !.analysis = <<>>]
                ELSE [st EXCEPT !.error = <<"Query execution failed: ">> \o r.exc],
                <<CallEv("QueryExecutor", st.sql_query, r)>>, <<>>)

\* execute_query
execute_query(st, out) ==
    LET r == FromOutcome(out)
    IN  IF HasError(st) THEN StageResult(st, <<>>, <<>>)
        ELSE StageResult(
                IF r.kind = "return" THEN [st EXCEPT !.query_results = r.val]
                ELSE [st EXCEPT !.error = <<"Query execution failed: ">> \o r.exc],
                <<CallEv("QueryExecutor", st.sql_query, r)>>, <<>>)

\* On a fault the message is also written into analysis.
analyze_results_inline(st, h, o1, o2) ==
    LET r == analyze_data(h, o1, o2)
    IN  IF HasError(st) THEN StageResult(st, <<>>, <<>>)
        ELSE StageResult(
                IF r.kind = "return" THEN [st EXCEPT !.analysis = r.val]
                ELSE [st EXCEPT !.error = <<"Analysis failed: ">> \o r.exc,
                                !.analysis = <<"Analysis failed: ">> \o r.exc],
                <<CallEv("ResultAnalyzer",
                         [data |-> to_string(st.query_results), question |-> st.question],
                         r)>>,
                StageLlm("analyze_results", r.llm))

\* The analyzer's answer is stored only when analysis is still empty.
analyze_results_keeps_existing(st, h, o1, o2) ==
    LET r == analyze_data(h, o1, o2)
    IN  IF HasError(st) THEN StageResult(st, <<>>, <<>>)
        ELSE StageResult(
                IF r.kind = "return"
                THEN (IF st.analysis = <<>> THEN [st EXCEPT !.analysis = r.val] ELSE st)
                ELSE [st EXCEPT !.error = <<"Analysis failed: ">> \o r.exc],
                <<CallEv("ResultAnalyzer",
                         [data |-> to_string(st.query_results), question |-> st.question],
                         r)>>,
                StageLlm("analyze_results", r.llm))

\* analyze_results
analyze_results(st, h, o1, o2) ==
    LET r == analyze_data(h, o1, o2)
    IN  IF HasError(st) THEN StageResult(st, <<>>, <<>>)
        ELSE StageResult(
                IF r.kind = "return" THEN [st EXCEPT !.analysis = r.val]
                ELSE [st EXCEPT !.error = <<"Analysis failed: ">> \o r.exc],
                <<CallEv("ResultAnalyzer",
                         [data |-> to_string(st.query_results), question |-> st.question],
                         r)>>,
                StageLlm("analyze_results", r.llm))

\* create_visualization without the test of error.
create_visualization_unguarded(st, vo) ==
    LET r == auto_visualize(st.query_results, vo)
    IN  StageResult(
            IF r.kind = "return" THEN [st EXCEPT !.visualization = r.val]
            ELSE [st EXCEPT !.error = <<"Visualization failed: ">> \o r.exc],
            <<CallEv("Visualizer",
                     [df |-> st.query_results, question |-> st.question], r)>>, <<>>)

\* create_visualization
create_visualization(st, vo) ==
    LET r == auto_visualize(st.query_results, vo)
    IN  IF HasError(st) THEN StageResult(st, <<>>, <<>>)
        ELSE StageResult(
                IF r.kind = "return" THEN [st EXCEPT !.visualization = r.val]
                ELSE [st EXCEPT !.error = <<"Visualization failed: ">> \o r.exc],
                <<CallEv("Visualizer",
                         [df |-> st.query_results, question |-> st.question], r)>>, <<>>)

\* intent.get(key, default)
get(d, key, default) == IF key \in DOMAIN d THEN d[key] ELSE default

\* The branch without the intent test: only an error ends the pipeline.
should_process_database_query_ignores_intent(st) ==
    IF HasError(st) THEN "end" ELSE "generate_sql"

\* The branch with confidence >= 0.7 in place of confidence > 0.7.
should_process_database_query_ge(st) ==
    LET intent == st.intent
        is_db_related == get(intent, "is_database_related", TRUE)
        confidence == get(intent, "confidence", 0)
    IN  IF HasError(st) THEN "end"
        ELSE IF ~is_db_related /\ confidence >= HighConfidence THEN "end"
        ELSE "generate_sql"

\* The branch without the test of state["error"].
should_process_database_query_no_error_check(st) ==
    LET intent == st.intent
        is_db_related == get(intent, "is_database_related", TRUE)
        confidence == get(intent, "confidence", 0)
    IN  IF ~is_db_related /\ confidence > HighConfidence THEN "end"
        ELSE "generate_sql"

\* should_process_database_query
should_process_database_query(st) ==
    LET intent == st.intent
        is_db_related == get(intent, "is_database_related", TRUE)
        confidence == get(intent, "confidence", 0)
    IN  IF HasError(st) THEN "end"
        ELSE IF ~is_db_related /\ confidence > HighConfidence THEN "end"
        ELSE "generate_sql"

\* The edges with execute_query and analyze_results wired in the other order.
edge_swapped(node) ==
    CASE node = "get_schema" -> "classify_intent"
      [] node = "generate_sql" -> "analyze_results"
      [] node = "analyze_results" -> "execute_query"
      [] node = "execute_query" -> "create_visualization"
      [] node = "create_visualization" -> END

\* The edges with a retry loop from create_visualization back to generate_sql.
edge_cyclic(node) ==
    CASE node = "get_schema" -> "classify_intent"
      [] node = "generate_sql" -> "execute_query"
      [] node = "execute_query" -> "analyze_results"
      [] node = "analyze_results" -> "create_visualization"
      [] node = "create_visualization" -> "generate_sql"

\* _build_graph: graph.add_edge
edge(node) ==
    CASE node = "get_schema" -> "classify_intent"
      [] node = "generate_sql" -> "execute_query"
      [] node = "execute_query" -> "analyze_results"
      [] node = "analyze_results" -> "create_visualization"
      [] node = "create_visualization" -> END

\* _build_graph: graph.add_conditional_edges("classify_intent", ...)
conditional_edges(label) ==
    CASE label = "generate_sql" -> "generate_sql"
      [] label = "end" -> END

\* _build_graph: graph.set_entry_point
entry_point == "get_schema"

(* ------------------------------ behaviour ------------------------------ *)

\* The callers that may have a process_question call in flight at once.
Callers == {"A", "B"}

\* The responses a node has not (yet) asked for.
NoResponse == Fail(<<>>)

NoResponses ==
    [get_schema |-> NoResponse, classify_intent |-> NoResponse,
     generate_sql |-> NoResponse, execute_query |-> NoResponse,
     analyze_results |-> NoResponse, create_visualization |-> NoResponse]

\* A caller that has not called process_question.
NotCalled == [pc |-> "idle", state |-> initial_state(<<>>), responses |-> NoResponses]

\* No function is being run on its own.
NoCall == [pc |-> "none"]

InitPipeline ==
    /\ pc = "idle"
    /\ state = initial_state(<<>>)
    /\ calls = <<>>
    /\ llm = <<>>
    /\ handler \in Handlers
    /\ invocations = 0
    /\ trail = <<>>
    /\ returned = "nothing"
    /\ inflight = [c \in Callers |-> NotCalled]

Init ==
    /\ InitPipeline
    /\ viz = NoCall
    /\ session = NoCall
    /\ built = NoCall
    /\ trunc = NoCall

\* How the previous process_question call ended for its caller.
Outcome ==
    CASE pc = "idle" -> "nothing"
      [] pc = "exception" -> "exception"
      [] HasError(state) -> "error"
      [] OTHER -> "ok"

\* The schema of the previous call is kept as an implicit cache.
process_question_keeps_schema ==
    /\ pc \in {"idle", END, "exception"}
    /\ invocations < MaxInvocations
    /\ \E q \in Questions :
          state' = [initial_state(q) EXCEPT !.schema_info = state.schema_info]
    /\ pc' = entry_point
    /\ calls' = <<>>
    /\ llm' = <<>>
    /\ invocations' = invocations + 1
    /\ trail' = <<>>
    /\ returned' = Outcome
    /\ UNCHANGED <<handler, inflight, units>>

\* process_question builds the initial state and hands it to graph.invoke;
\* returned remembers how the call before it ended.
process_question ==
    /\ pc \in {"idle", END, "exception"}
    /\ invocations < MaxInvocations
    /\ \E q \in Questions : state' = initial_state(q)
    /\ pc' = entry_point
    /\ calls' = <<>>
    /\ llm' = <<>>
    /\ invocations' = invocations + 1
    /\ trail' = <<>>
    /\ returned' = Outcome
    /\ UNCHANGED <<handler, inflight, units>>

\* graph.invoke runs one node: an exception leaving the node function
\* leaves graph.invoke and process_question too.  trail lists the nodes
\* run so far in this invocation.
RunNode(res, next) ==
    /\ Len(trail) < MaxTrail
    /\ trail' = Append(trail, pc)
    /\ state' = res.state
    /\ calls' = calls \o res.calls
    /\ llm' = llm \o res.llm
    /\ pc' = IF res.kind = "raise" THEN "exception" ELSE next
    /\ UNCHANGED <<handler, invocations, returned, inflight, units>>

node_get_schema ==
    /\ pc = "get_schema"
    /\ \E out \in SchemaOutcomes : RunNode(get_schema(state, out), edge("get_schema"))

node_classify_intent ==
    /\ pc = "classify_intent"
    /\ \E out \in IntentOutcomes : RunNode(classify_intent(state, out), "branch")

\* the conditional edge after classify_intent
branch ==
    /\ pc = "branch"
    /\ pc' = conditional_edges(should_process_database_query(state))
    /\ UNCHANGED <<state, calls, llm, handler, invocations, trail, returned, inflight, units>>

node_generate_sql ==
    /\ pc = "generate_sql"
    /\ \E o1 \in LlmSqlOutcomes, o2 \in LlmSqlOutcomes :
          RunNode(generate_sql(state, handler, o1, o2), edge("generate_sql"))

node_execute_query ==
    /\ pc = "execute_query"
    /\ \E out \in ExecOutcomes : RunNode(execute_query(state, out), edge("execute_query"))

node_analyze_results ==
    /\ pc = "analyze_results"
    /\ \E o1 \in LlmTextOutcomes, o2 \in LlmTextOutcomes :
          RunNode(analyze_results(state, handler, o1, o2), edge("analyze_results"))

node_create_visualization ==
    /\ pc = "create_visualization"
    /\ \E vo \in VizOutcomes :
          RunNode(create_visualization(state, vo), edge("create_visualization"))

Next ==
    \/ process_question
    \/ node_get_schema
    \/ node_classify_intent
    \/ branch
    \/ node_generate_sql
    \/ node_execute_query
    \/ node_analyze_results
    \/ node_create_visualization

Spec == Init /\ [][Next]_vars

\* Every collaborator call returns or raises, so graph.invoke always runs
\* the node it is at.
GraphStep ==
    \/ node_get_schema
    \/ node_classify_intent
    \/ branch
    \/ node_generate_sql
    \/ node_execute_query
    \/ node_analyze_results
    \/ node_create_visualization

SpecFair == Init /\ [][Next]_vars /\ WF_vars(GraphStep)

(* ----------------------- interleaved invocations ----------------------- *)

\* The collaborator responses drawn while two calls are interleaved.
ConcSchemaOutcomes == {Ok(<<"orders">>)} \cup {Fail(c) : c \in Causes}

ConcIntentOutcomes ==
    {Ok([is_database_related |-> TRUE, confidence |-> 100,
         reasoning |-> <<"because">>, suggested_response |-> NoneText]),
     Ok([is_database_related |-> FALSE, confidence |-> 71,
         reasoning |-> <<"because">>,
         suggested_response |-> SomeText(<<"I can't answer that.">>)]),
     Ok([is_database_related |-> FALSE, confidence |-> 70,
         reasoning |-> <<"because">>, suggested_response |-> NoneText])}
    \cup {Fail(c) : c \in Causes}

ConcSqlOutcomes ==
    {Ok(<<"FENCE", "sql", " ", "SELECT 1", " ", "FENCE">>)} \cup {Fail(c) : c \in Causes}

ConcExecOutcomes ==
    {Ok([rows |-> 2, cols |-> <<"object", "number">>])} \cup {Fail(c) : c \in Causes}

\* Every call works on the one state object kept by the agent.
StateOf_shared(c) == inflight[CHOOSE d \in Callers : TRUE].state

\* The state object graph.invoke threads through the nodes of the call of
\* caller c: the AgentState that call of process_question built.
StateOf(c) == inflight[c].state

\* process_question called by c while other calls may be in flight
conc_process_question(c) ==
    /\ inflight[c].pc = "idle"
    /\ \E q \in Questions :
          inflight' = [inflight EXCEPT ![c] =
                          [pc |-> entry_point, state |-> initial_state(q),
                           responses |-> NoResponses]]
    /\ UNCHANGED <<pc, state, calls, llm, handler, invocations, trail, returned, units>>

\* graph.invoke of caller c runs one node; the response the node got from
\* its collaborator is kept in responses.
ConcRunNode(c, node, res, out, next) ==
    /\ inflight' = [inflight EXCEPT ![c] =
                       [pc |-> IF res.kind = "raise" THEN "exception" ELSE next,
                        state |-> res.state,
                        responses |-> IF res.calls # <<>>
                                      THEN [inflight[c].responses EXCEPT ![node] = out]
                                      ELSE inflight[c].responses]]
    /\ UNCHANGED <<pc, state, calls, llm, handler, invocations, trail, returned, units>>

conc_get_schema(c) ==
    /\ inflight[c].pc = "get_schema"
    /\ \E out \in ConcSchemaOutcomes :
          ConcRunNode(c, "get_schema", get_schema(StateOf(c), out), out,
                      edge("get_schema"))

conc_classify_intent(c) ==
    /\ inflight[c].pc = "classify_intent"
    /\ \E out \in ConcIntentOutcomes :
          ConcRunNode(c, "classify_intent", classify_intent(StateOf(c), out), out,
                      conditional_edges(should_process_database_query(
                          classify_intent(StateOf(c), out).state)))

conc_generate_sql(c) ==
    /\ inflight[c].pc = "generate_sql"
    /\ \E out \in ConcSqlOutcomes :
          ConcRunNode(c, "generate_sql", generate_sql(StateOf(c), handler, out, out),
                      out, edge("generate_sql"))

conc_execute_query(c) ==
    /\ inflight[c].pc = "execute_query"
    /\ \E out \in ConcExecOutcomes :
          ConcRunNode(c, "execute_query", execute_query(StateOf(c), out), out,
                      edge("execute_query"))

conc_analyze_results(c) ==
    /\ inflight[c].pc = "analyze_results"
    /\ \E out \in LlmTextOutcomes :
          ConcRunNode(c, "analyze_results",
                      analyze_results(StateOf(c), handler, out, out), out,
                      edge("analyze_results"))

conc_create_visualization(c) ==
    /\ inflight[c].pc = "create_visualization"
    /\ \E out \in VizOutcomes :
          ConcRunNode(c, "create_visualization",
                      create_visualization(StateOf(c), out), out,
                      edge("create_visualization"))

NextConc ==
    \E c \in Callers :
        \/ conc_process_question(c)
        \/ conc_get_schema(c)
        \/ conc_classify_intent(c)
        \/ conc_generate_sql(c)
        \/ conc_execute_query(c)
        \/ conc_analyze_results(c)
        \/ conc_create_visualization(c)

SpecConc == Init /\ [][NextConc]_vars

(* ------------------- auto_visualize on any result --------------------- *)

pipeline == <<pc, state, calls, llm, handler, invocations, trail, returned, inflight>>

MaxCols == 3

\* The dtypes select_dtypes tells apart here, and one it selects for none
\* of the three lists.
Dtypes == {"number", "object", "category", "datetime64", "bool"}

ColumnLists == UNION {[1..n -> Dtypes] : n \in 0..MaxCols}

\* len(df): none, one, the most a bar chart takes, and one more.
VizRows == {0, 1, MaxBarRows, MaxBarRows + 1}

VizFrames == [rows : VizRows, cols : ColumnLists]

\* The state create_visualization is handed when the stages before it set
\* no error and the executor returned df.
BeforeVisualization(df) ==
    [initial_state(<<"q1">>) EXCEPT !.schema_info = <<"customers">>,
                                    !.sql_query = <<"SELECT 1">>,
                                    !.query_results = df,
                                    !.analysis = <<"analysis">>]

InitViz ==
    /\ InitPipeline
    /\ \E df \in VizFrames, vo \in VizOutcomes :
          viz = [pc |-> "ready", df |-> df, vo |-> vo, result |-> Return(None),
                 st |-> BeforeVisualization(df)]
    /\ session = NoCall
    /\ built = NoCall
    /\ trunc = NoCall

\* VisualizationManager.auto_visualize(df, question)
call_auto_visualize ==
    /\ viz.pc = "ready"
    /\ viz' = [viz EXCEPT !.pc = "called", !.result = auto_visualize(viz.df, viz.vo)]
    /\ UNCHANGED <<pipeline, session, built, trunc>>

\* the create_visualization node on the state that carries df
call_create_visualization ==
    /\ viz.pc = "ready"
    /\ viz' = [viz EXCEPT !.pc = "staged",
                          !.st = create_visualization(viz.st, viz.vo).state]
    /\ UNCHANGED <<pipeline, session, built, trunc>>

NextViz ==
    \/ call_auto_visualize
    \/ call_create_visualization

SpecViz == InitViz /\ [][NextViz]_vars

(* -------------------------- test_feedback.py --------------------------- *)

MaxAdds == 4

\* f"msg_{i}"
message_id(i) == <<"msg_", i>>

\* the two messages "Add Test Message" appends
TestQuestion == [role |-> "user", content |-> <<"Test question">>]

TestResponse ==
    [role |-> "assistant", content |-> <<"Test response">>,
     data |-> [rows |-> 2, cols |-> <<"object", "number">>],
     sql_query |-> <<"SELECT * FROM test">>]

\* st.session_state.messages and .feedback_given once main has set them
Messages(ss) == IF "messages" \in DOMAIN ss THEN ss.messages ELSE <<>>

FeedbackGiven(ss) == IF "feedback_given" \in DOMAIN ss THEN ss.feedback_given ELSE {}

\* the buttons that are down in one run of the script
NoClicks == [add |-> FALSE, submit |-> {}]

\* The test before the feedback widget, without the feedback_given part.
widget_shown_again(ms, given, i) ==
    /\ ms[i + 1].role = "assistant"
    /\ "data" \in DOMAIN ms[i + 1]

\* the test before the feedback widget of message i
widget_shown(ms, given, i) ==
    /\ ms[i + 1].role = "assistant"
    /\ "data" \in DOMAIN ms[i + 1]
    /\ message_id(i) \notin given

\* One run of main over session state ss: the loop stops at the first
\* message whose submit button is down (st.rerun()); offered lists the
\* messages whose widget this run showed, submitted the message whose
\* feedback it took.
main(ss, clicks) ==
    LET ms == IF clicks.add THEN Messages(ss) \o <<TestQuestion, TestResponse>>
              ELSE Messages(ss)
        given == FeedbackGiven(ss)
        hit == {i \in 0..(Len(ms) - 1) : widget_shown(ms, given, i) /\ i \in clicks.submit}
        first == CHOOSE i \in hit : \A j \in hit : i <= j
    IN  [session_state |->
            [messages |-> ms,
             feedback_given |-> IF hit = {} THEN given
                                ELSE given \cup {message_id(first)}],
         offered |-> {i \in 0..(Len(ms) - 1) :
                         widget_shown(ms, given, i) /\ (hit = {} \/ i <= first)},
         submitted |-> IF hit = {} THEN <<>> ELSE <<first>>,
         rerun |-> hit # {}]

InitFeedback ==
    /\ InitPipeline
    /\ viz = NoCall
    /\ session = [pc |-> "waiting", session_state |-> EmptyDict, offered |-> {},
                  submitted |-> <<>>]
    /\ built = NoCall
    /\ trunc = NoCall

\* Streamlit runs the script with these buttons down.
ScriptRun(clicks) ==
    LET r == main(session.session_state, clicks)
    IN  /\ session' = [pc |-> IF r.rerun THEN "rerun" ELSE "waiting",
                       session_state |-> r.session_state,
                       offered |-> r.offered,
                       submitted |-> session.submitted \o r.submitted]
        /\ UNCHANGED <<pipeline, viz, built, trunc>>

AddTestMessage ==
    /\ session.pc = "waiting"
    /\ Len(Messages(session.session_state)) < 2 * MaxAdds
    /\ ScriptRun([add |-> TRUE, submit |-> {}])

SubmitFeedback ==
    /\ session.pc = "waiting"
    /\ \E i \in 0..(Len(Messages(session.session_state)) - 1) :
          ScriptRun([add |-> FALSE, submit |-> {i}])

\* Clicks made while a run is in progress reach the script together.
CoalescedClicks ==
    /\ session.pc = "waiting"
    /\ Len(Messages(session.session_state)) < 2 * MaxAdds
    /\ \E add \in BOOLEAN, is \in SUBSET (0..(Len(Messages(session.session_state)) - 1)) :
          /\ Cardinality(is) + (IF add THEN 1 ELSE 0) >= 2
          /\ ScriptRun([add |-> add, submit |-> is])

\* a run no button started: the first run, another widget, or st.rerun()
Rerun ==
    /\ session.pc \in {"waiting", "rerun"}
    /\ ScriptRun(NoClicks)

NextFeedback ==
    \/ AddTestMessage
    \/ SubmitFeedback
    \/ CoalescedClicks
    \/ Rerun

SpecFeedback == InitFeedback /\ [][NextFeedback]_vars

(* ---------------- llm_handler_fallback.LLMHandler() ------------------- *)

MaxHandlerCalls == 3

\* whether ChatOpenAI(...) and OpenAI(...), imports included, come back
ClientOutcomes == {Ok(<<>>)} \cup {Fail(c) : c \in Causes}

\* __init__ that takes the direct client for the LangChain one.
fallback_init_flag_stuck(lc, oa) ==
    [attempts |-> IF lc.ok THEN <<"ChatOpenAI">> ELSE <<"ChatOpenAI", "OpenAI">>,
     kind |-> IF lc.ok \/ oa.ok THEN "return" ELSE "raise",
     self |-> [impl |-> "fallback", langchain |-> TRUE,
               attrs |-> IF lc.ok THEN {"llm", "use_langchain"}
                         ELSE {"client", "use_langchain"}],
     exc |-> <<>>]

\* LLMHandler.__init__ (fallback): attempts lists the clients it tried to
\* build, self is the instance when it returns.
fallback_init(lc, oa) ==
    [attempts |-> IF lc.ok THEN <<"ChatOpenAI">> ELSE <<"ChatOpenAI", "OpenAI">>,
     kind |-> IF lc.ok \/ oa.ok THEN "return" ELSE "raise",
     self |-> IF lc.ok
              THEN [impl |-> "fallback", langchain |-> TRUE,
                    attrs |-> {"llm", "use_langchain"}]
              ELSE IF oa.ok
              THEN [impl |-> "fallback", langchain |-> FALSE,
                    attrs |-> {"client", "use_langchain"}]
              ELSE NoCall,
     exc |-> IF lc.ok \/ oa.ok THEN <<>>
             ELSE <<"Both LangChain and direct OpenAI failed. LangChain: ">>
                  \o lc.cause \o <<", OpenAI: ">> \o oa.cause]

InitBuild ==
    /\ InitPipeline
    /\ viz = NoCall
    /\ session = NoCall
    /\ trunc = NoCall
    /\ built = [pc |-> "new", lc |-> Ok(<<>>), oa |-> Ok(<<>>), attempts |-> <<>>,
                self |-> NoCall, exc |-> <<>>, dispatched |-> <<>>]

\* LLMHandler()
construct ==
    /\ built.pc = "new"
    /\ \E lc \in ClientOutcomes, oa \in ClientOutcomes :
          LET r == fallback_init(lc, oa)
          IN  built' = [built EXCEPT !.pc = IF r.kind = "return" THEN "ready"
                                           ELSE "failed",
                                     !.lc = lc, !.oa = oa,
                                     !.attempts = r.attempts,
                                     !.self = r.self,
                                     !.exc = r.exc]
    /\ UNCHANGED <<pipeline, viz, session, trunc>>

\* A call on the instance: dispatched keeps the method, use_langchain as
\* the call found it and the path the model call went down.
MethodCall(method, r) ==
    /\ built.pc = "ready"
    /\ Len(built.dispatched) < MaxHandlerCalls
    /\ built' = [built EXCEPT !.dispatched =
                    Append(@, [method |-> method,
                               use_langchain |-> built.self.langchain,
                               path |-> r.llm[1].path,
                               kind |-> r.kind])]
    /\ UNCHANGED <<pipeline, viz, session, trunc>>

call_generate_sql_query ==
    \E o \in LlmSqlOutcomes :
       MethodCall("generate_sql_query", fallback_generate_sql_query(built.self, o))

call_analyze_data ==
    \E o \in LlmTextOutcomes :
       MethodCall("analyze_data", fallback_analyze_data(built.self, o))

NextBuild ==
    \/ construct
    \/ call_generate_sql_query
    \/ call_analyze_data

SpecBuild == InitBuild /\ [][NextBuild]_vars

(* --------- llm_handler_simple._truncate_data_for_analysis ------------- *)

\* Texts are taken character by character here: a text is the sequence of
\* its characters, len(data) is Len(data).

MaxLen == 7

LongLen == 16

CharsPerToken == 3

\* self.config.max_context_tokens, a positive number of tokens
ContextTokens == {1, 2, 5}

DecimalDigits == <<"0", "1", "2", "3", "4", "5", "6", "7", "8", "9">>

RECURSIVE str(_)
\* str(n) for n >= 0, as the f-string formats a length
str(n) ==
    IF n < 10 THEN <<DecimalDigits[n + 1]>>
    ELSE str(n \div 10) \o <<DecimalDigits[(n % 10) + 1]>>

NoteShowingFirst ==
    <<"\n", "\n", "[", "N", "o", "t", "e", ":", " ", "D", "a", "t", "a", " ",
      "t", "r", "u", "n", "c", "a", "t", "e", "d", " ", "f", "o", "r", " ",
      "a", "n", "a", "l", "y", "s", "i", "s", ".", " ", "S", "h", "o", "w",
      "i", "n", "g", " ", "f", "i", "r", "s", "t", " ">>

NoteCharactersOf ==
    <<" ", "c", "h", "a", "r", "a", "c", "t", "e", "r", "s", " ", "o", "f",
      " ">>

NoteTotalCharacters ==
    <<" ", "t", "o", "t", "a", "l", " ", "c", "h", "a", "r", "a", "c", "t",
      "e", "r", "s", ".", "]">>

\* the f-string of the return statement
Note(kept, total) ==
    NoteShowingFirst \o str(kept) \o NoteCharactersOf \o str(total)
       \o NoteTotalCharacters

\* s.rfind(ch): the last index (from 0) of ch in s, or -1
rfind(s, ch) ==
    IF \E i \in 1..Len(s) : s[i] = ch
    THEN (CHOOSE i \in 1..Len(s) :
             s[i] = ch /\ \A j \in (i + 1)..Len(s) : s[j] # ch) - 1
    ELSE -1

\* _truncate_data_for_analysis that cuts at the last line break wherever it is.
truncate_data_for_analysis_any_newline(data, max_context_tokens) ==
    LET max_chars == max_context_tokens * CharsPerToken
        truncated == SubSeq(data, 1, max_chars)
        last_newline == rfind(truncated, "\n")
        kept == IF last_newline > 0
                THEN SubSeq(truncated, 1, last_newline) ELSE truncated
    IN  IF Len(data) <= max_chars THEN data
        ELSE kept \o Note(Len(kept), Len(data))

\* LLMHandler._truncate_data_for_analysis.  last_newline > max_chars * 0.8
\* is a comparison of an int with a float product; for every max_chars a
\* multiple of 3 up to 30000 it agrees with 10 * last_newline > 8 * max_chars.
truncate_data_for_analysis(data, max_context_tokens) ==
    LET max_chars == max_context_tokens * CharsPerToken
        truncated == SubSeq(data, 1, max_chars)
        last_newline == rfind(truncated, "\n")
        kept == IF 10 * last_newline > 8 * max_chars
                THEN SubSeq(truncated, 1, last_newline) ELSE truncated
    IN  IF Len(data) <= max_chars THEN data
        ELSE kept \o Note(Len(kept), Len(data))

\* every text of letters and line breaks up to MaxLen characters
ShortTexts == UNION {[1..n -> {"a", "\n"}] : n \in 0..MaxLen}

\* texts of LongLen characters with at most two line breaks
LongTexts ==
    {[i \in 1..LongLen |-> IF i \in nl THEN "\n" ELSE "a"] :
        nl \in {x \in SUBSET (1..LongLen) : Cardinality(x) <= 2}}

\* texts that end in a note of the same wording, as a result set may hold
NotedTexts ==
    {p \o Note(Len(p), n) :
        p \in {<<"a", "a", "a">>, <<"a", "\n", "a">>,
               <<"a", "a", "a", "a", "a", "a">>},
        n \in {90, 92, 95}}

TruncInputs == ShortTexts \cup LongTexts \cup NotedTexts

InitTrunc ==
    /\ InitPipeline
    /\ viz = NoCall
    /\ session = NoCall
    /\ built = NoCall
    /\ \E data \in TruncInputs, t \in ContextTokens :
          trunc = [pc |-> "ready", data |-> data, max_context_tokens |-> t,
                   result |-> <<>>]

\* self._truncate_data_for_analysis(data)
call_truncate ==
    /\ trunc.pc = "ready"
    /\ trunc' = [trunc EXCEPT !.pc = "done",
                              !.result = truncate_data_for_analysis(
                                            trunc.data, trunc.max_context_tokens)]
    /\ UNCHANGED <<pipeline, viz, session, built>>

NextTrunc == call_truncate

SpecTrunc == InitTrunc /\ [][NextTrunc]_vars

\* process_question(q) run alone, with the collaborators answering in.
RunAlone(q, h, in) ==
    LET s1 == get_schema(initial_state(q), in.get_schema).state
        s2 == classify_intent(s1, in.classify_intent).state
        s3 == generate_sql(s2, h, in.generate_sql, in.generate_sql).state
        s4 == execute_query(s3, in.execute_query).state
        s5 == analyze_results(s4, h, in.analyze_results, in.analyze_results).state
        s6 == create_visualization(s5, in.create_visualization).state
    IN  IF conditional_edges(should_process_database_query(s2)) = END THEN s2 ELSE s6

(* ------------------------- reading the logs ---------------------------- *)

Called(who) == \E i \in 1..Len(calls) : calls[i].who = who

CountCalls(who) == Cardinality({i \in 1..Len(calls) : calls[i].who = who})

SomeCallRaised == \E i \in 1..Len(calls) : calls[i].raised

\* The schema fetch and the classification of this invocation both returned.
Classified ==
    /\ Len(calls) >= 2
    /\ calls[1].who = "SchemaProvider" /\ ~calls[1].raised
    /\ calls[2].who = "IntentClassifier" /\ ~calls[2].raised

Downstream == {"QueryGenerator", "QueryExecutor", "ResultAnalyzer", "Visualizer"}

StagePrefixes ==
    {"Schema retrieval failed: ", "Intent classification failed: ",
     "SQL generation failed: ", "Query execution failed: ",
     "Analysis failed: ", "Visualization failed: "}

(* ------------------------------- claims -------------------------------- *)

\* C1: when the Schema Provider raises, the returned state has error
\* "Schema retrieval failed: <cause>", schema_info {}, sql_query "" and
\* analysis "", whatever the Intent Classifier does.
C1_SchemaFailureState ==
    (pc = END /\ Len(calls) >= 1 /\ calls[1].who = "SchemaProvider" /\ calls[1].raised)
    => /\ state.error = <<"Schema retrieval failed: ">> \o calls[1].exc
       /\ state.schema_info = <<>>
       /\ state.sql_query = <<>>
       /\ state.analysis = <<>>

\* C2: once a collaborator call has raised, no collaborator is invoked for
\* the rest of the invocation: a raising call is the last call.
C2_NoCallAfterFailure ==
    \A i \in 1..Len(calls) : calls[i].raised => i = Len(calls)

\* C3: monotonic error lock: in the returned state, the fields written by
\* the stages after the first failing one hold their initial defaults.
C3_MonotonicErrorLock ==
    (pc = END /\ SomeCallRaised) =>
        LET k == CHOOSE i \in 1..Len(calls) :
                    calls[i].raised /\ \A j \in 1..(i - 1) : ~calls[j].raised
            failed == calls[k].who
        IN  /\ failed = "SchemaProvider" =>
                  state.intent = EmptyDict /\ state.analysis = <<>>
            /\ failed \in {"SchemaProvider", "IntentClassifier"} =>
                  state.sql_query = <<>>
            /\ failed \in {"SchemaProvider", "IntentClassifier", "QueryGenerator"} =>
                  state.query_results = EmptyFrame
            /\ failed # "Visualizer" => state.visualization = None

\* C4: short-circuit: with a successful classification that is negative with
\* confidence above 0.7, no downstream collaborator is ever invoked and the
\* returned state has sql_query "", empty query_results, no visualization,
\* empty error and a non-empty analysis.
C4_ShortCircuit ==
    (Classified /\ ~calls[2].ret.is_database_related /\ calls[2].ret.confidence > 70)
    => /\ \A w \in Downstream : ~Called(w)
       /\ pc \in {"branch", END}
       /\ state.sql_query = <<>>
       /\ state.query_results = EmptyFrame
       /\ state.visualization = None
       /\ state.error = <<>>
       /\ state.analysis # <<>>

C4_Witness ==
    /\ pc = END
    /\ Classified
    /\ ~calls[2].ret.is_database_related
    /\ calls[2].ret.confidence = 71

\* C5: proceed on ambiguity: with a successful classification that is
\* positive (any confidence) or negative with confidence at most 0.7, the
\* Query Generator is invoked exactly once and, if it returns, sql_query
\* holds what it returned.
C5_ProceedOnAmbiguity ==
    (Classified /\ (calls[2].ret.is_database_related \/ calls[2].ret.confidence <= 70))
    => /\ CountCalls("QueryGenerator") <= 1
       /\ pc = END =>
            /\ Len(calls) >= 3
            /\ calls[3].who = "QueryGenerator"
            /\ CountCalls("QueryGenerator") = 1
            /\ ~calls[3].raised => state.sql_query = calls[3].ret

C5_Witness ==
    /\ pc = END
    /\ Classified
    /\ ~calls[2].ret.is_database_related
    /\ calls[2].ret.confidence = 70
    /\ Len(calls) >= 3
    /\ ~calls[3].raised
    /\ state.sql_query = <<"SELECT 1">>

\* C6: with a positive classification and no collaborator raising, the six
\* collaborators are invoked once each in the order Schema Provider, Intent
\* Classifier, Query Generator, Query Executor, Result Analyzer, Visualizer,
\* and the returned state has empty error, the generator's sql_query and the
\* analyzer's analysis.
C6_SuccessPathOrder ==
    (pc = END /\ Classified /\ calls[2].ret.is_database_related /\ ~SomeCallRaised)
    => /\ [i \in 1..Len(calls) |-> calls[i].who]
            = <<"SchemaProvider", "IntentClassifier", "QueryGenerator",
                "QueryExecutor", "ResultAnalyzer", "Visualizer">>
       /\ state.error = <<>>
       /\ state.sql_query = calls[3].ret
       /\ state.analysis = calls[5].ret

C6_Witness ==
    /\ pc = END
    /\ Classified
    /\ calls[2].ret.is_database_related
    /\ ~SomeCallRaised
    /\ state.visualization = "bar"
    /\ state.analysis = <<"the analysis">>

\* C7: process_question never lets an exception reach its caller; error is
\* non-empty exactly when some collaborator call raised into its stage, and
\* then begins with one of the six stage prefixes.
C7_ErrorsAreReturned ==
    /\ pc # "exception"
    /\ HasError(state) <=> SomeCallRaised
    /\ HasError(state) => state.error[1] \in StagePrefixes

C7_Witness ==
    /\ pc = END
    /\ Len(calls) = 6
    /\ calls[6].raised
    /\ state.error = <<"Visualization failed: ", "boom">>

\* C8: within one invocation the error field is never cleared: a step from
\* a state with non-empty error leads to a state with non-empty error.
C8_ErrorNeverCleared ==
    [][(HasError(state) /\ invocations' = invocations) => HasError(state')]_vars

C8_Witness ==
    /\ pc = END
    /\ Len(calls) = 2
    /\ calls[1].raised
    /\ ~calls[2].raised
    /\ HasError(state)

C10_AnalyzerFaultStops ==
    (/\ pc = END
     /\ handler.impl = "fallback"
     /\ \E i \in 1..Len(llm) : llm[i].stage = "analyze_results" /\ ~llm[i].ok)
    => /\ HasError(state)
       /\ state.error[1] = "Analysis failed: "
       /\ ~Called("Visualizer")
       /\ state.visualization = None

\* The classification of this invocation returned (whatever the schema
\* fetch did).
IntentReturned ==
    /\ Len(calls) >= 2
    /\ calls[2].who = "IntentClassifier"
    /\ ~calls[2].raised

\* The chunk c occurs in the text t.
Mentions(t, c) == \E j \in 1..Len(t) : t[j] = c

\* C11: after a successful classification, a negative answer puts the
\* supplied non-empty suggested_response into analysis, and otherwise the
\* template, which is never empty and names every table of schema_info (or
\* "various business entities" for an empty schema_info); a positive answer
\* leaves analysis as it was.  So a returned high-confidence negative answer
\* with a supplied response has exactly that response as analysis.
C11_IntentAnalysis ==
    /\ (pc = "branch" /\ IntentReturned) =>
          LET r == calls[2].ret
              supplied == r.suggested_response.some /\ r.suggested_response.text # <<>>
          IN  /\ (~r.is_database_related /\ supplied) =>
                    state.analysis = r.suggested_response.text
              /\ (~r.is_database_related /\ ~supplied) =>
                    /\ state.analysis # <<>>
                    /\ \A i \in 1..Len(state.schema_info) :
                          Mentions(state.analysis, state.schema_info[i])
                    /\ state.schema_info = <<>> =>
                          Mentions(state.analysis, "various business entities")
              /\ r.is_database_related => state.analysis = <<>>
    /\ (/\ pc = END
        /\ IntentReturned
        /\ ~calls[2].ret.is_database_related
        /\ calls[2].ret.confidence > 70
        /\ calls[2].ret.suggested_response.some
        /\ calls[2].ret.suggested_response.text # <<>>)
       => state.analysis = calls[2].ret.suggested_response.text

C11_Witness ==
    /\ pc = "branch"
    /\ IntentReturned
    /\ ~calls[2].ret.is_database_related
    /\ calls[2].ret.suggested_response = SomeText(<<>>)
    /\ state.schema_info = <<"customers", "orders">>
    /\ Mentions(state.analysis, "customers")

\* C12: no caching across invocations: every process_question call starts
\* from the default state (nothing the call before wrote, error included, is
\* in it) with no collaborator called yet, and every call that returns has
\* invoked the Schema Provider exactly once.
C12_NoCaching ==
    /\ (pc = entry_point /\ trail = <<>>) =>
          /\ state.schema_info = <<>>
          /\ state.intent = EmptyDict
          /\ state.sql_query = <<>>
          /\ state.query_results = EmptyFrame
          /\ state.analysis = <<>>
          /\ state.visualization = None
          /\ state.error = <<>>
          /\ calls = <<>>
    /\ pc = END => CountCalls("SchemaProvider") = 1

C12_Witness ==
    /\ invocations = 2
    /\ returned = "error"
    /\ pc = END
    /\ CountCalls("SchemaProvider") = 1
    /\ state.error = <<>>
    /\ state.schema_info = <<"orders">>

\* C13: isolation of interleaved invocations: whatever the interleaving of
\* the nodes of two calls, the state a call returns is the state it returns
\* when run alone with the same collaborator responses, and a step of one
\* call leaves the state of the other call as it is.
C13_Isolation ==
    /\ [](\A c \in Callers :
             inflight[c].pc = END =>
                inflight[c].state
                  = RunAlone(inflight[c].state.question, handler, inflight[c].responses))
    /\ [][\A c, d \in Callers :
             (c # d /\ inflight'[c] # inflight[c]) => inflight'[d] = inflight[d]]_vars

C13_Witness ==
    /\ inflight["A"].pc = END
    /\ inflight["B"].pc = END
    /\ inflight["A"].state.question = inflight["B"].state.question
    /\ inflight["A"].state.error = <<"Query execution failed: ", "boom">>
    /\ inflight["B"].state.error = <<>>
    /\ inflight["B"].state.visualization = "bar"

\* C14: when the Intent Classifier raises after a successful schema fetch,
\* the branch goes straight to End: no downstream collaborator is invoked,
\* error is "Intent classification failed: <cause>", intent, analysis,
\* sql_query, query_results and visualization keep their defaults and
\* schema_info keeps the fetched schema.
C14_IntentFailure ==
    (/\ Len(calls) >= 2
     /\ calls[1].who = "SchemaProvider" /\ ~calls[1].raised
     /\ calls[2].who = "IntentClassifier" /\ calls[2].raised)
    => /\ pc \in {"branch", END}
       /\ \A w \in Downstream : ~Called(w)
       /\ state.error = <<"Intent classification failed: ">> \o calls[2].exc
       /\ state.intent = EmptyDict
       /\ state.analysis = <<>>
       /\ state.sql_query = <<>>
       /\ state.query_results = EmptyFrame
       /\ state.visualization = None
       /\ state.schema_info = calls[1].ret

C14_Witness ==
    /\ pc = END
    /\ Len(calls) = 2
    /\ ~calls[1].raised
    /\ calls[2].raised
    /\ trail = <<"get_schema", "classify_intent">>
    /\ state.schema_info = <<"customers", "orders">>

DownstreamNodes ==
    {"generate_sql", "execute_query", "analyze_results", "create_visualization"}

PrefixOf(node) ==
    CASE node = "generate_sql" -> "SQL generation failed: "
      [] node = "execute_query" -> "Query execution failed: "
      [] node = "analyze_results" -> "Analysis failed: "
      [] node = "create_visualization" -> "Visualization failed: "

\* C15: failure frame: when the collaborator call of generate_sql,
\* execute_query, analyze_results or create_visualization raises, the node
\* changes no field but error, which gets that stage's prefix and the
\* cause; every later node leaves the state as it is, so the returned state
\* is the state on entry to the failing stage except for error.
C15_FailureFrame ==
    /\ [][(/\ pc \in DownstreamNodes
           /\ Len(calls') = Len(calls) + 1
           /\ calls'[Len(calls')].raised)
          => /\ state' = [state EXCEPT !.error = state'.error]
             /\ state'.error = <<PrefixOf(pc)>> \o calls'[Len(calls')].exc]_vars
    /\ [][(pc \in DownstreamNodes /\ HasError(state)) => state' = state]_vars

C15_Witness ==
    /\ pc = END
    /\ Len(calls) = 5
    /\ calls[5].raised
    /\ state.error = <<"Analysis failed: ", "boom">>
    /\ state.sql_query = <<"SELECT 1">>
    /\ state.query_results = [rows |-> 2, cols |-> <<"object", "number">>]
    /\ state.analysis = <<"I can't answer that.">>
    /\ state.visualization = None

\* The text classify_intent wrote into analysis for a negative answer.
EarlyText ==
    LET sr == calls[2].ret.suggested_response
    IN  IF sr.some /\ sr.text # <<>> THEN sr.text ELSE FallbackMessage(state)

\* C16: on the low-confidence negative path with every later stage
\* succeeding, the returned analysis is the Result Analyzer's answer and not
\* the text classify_intent wrote; that text is the returned analysis only
\* when no Result Analyzer call has returned.
C16_AnalyzerOverwrites ==
    /\ (/\ pc = END
        /\ Classified
        /\ ~calls[2].ret.is_database_related
        /\ calls[2].ret.confidence <= 70
        /\ ~SomeCallRaised)
       => /\ Len(calls) = 6
          /\ calls[5].who = "ResultAnalyzer"
          /\ state.analysis = calls[5].ret
          /\ state.analysis # EarlyText
    /\ (/\ pc = END
        /\ IntentReturned
        /\ ~calls[2].ret.is_database_related
        /\ state.analysis = EarlyText)
       => ~\E i \in 1..Len(calls) : calls[i].who = "ResultAnalyzer" /\ ~calls[i].raised

C16_Witness ==
    /\ pc = END
    /\ Classified
    /\ ~calls[2].ret.is_database_related
    /\ calls[2].ret.confidence = 70
    /\ calls[2].ret.suggested_response = NoneText
    /\ ~SomeCallRaised
    /\ state.analysis = <<"the analysis">>

\* C17: field ownership: within an invocation question never changes,
\* schema_info is changed only by get_schema, intent only by
\* classify_intent, sql_query only by generate_sql, query_results only by
\* execute_query, visualization only by create_visualization and analysis
\* only by classify_intent or analyze_results; no node runs twice, so each
\* single-owner field is written at most once.
C17_FieldOwnership ==
    /\ [](\A i, j \in 1..Len(trail) : trail[i] = trail[j] => i = j)
    /\ [][invocations' = invocations =>
            /\ state'.question = state.question
            /\ state'.schema_info # state.schema_info => pc = "get_schema"
            /\ state'.intent # state.intent => pc = "classify_intent"
            /\ state'.sql_query # state.sql_query => pc = "generate_sql"
            /\ state'.query_results # state.query_results => pc = "execute_query"
            /\ state'.visualization # state.visualization => pc = "create_visualization"
            /\ state'.analysis # state.analysis =>
                  pc \in {"classify_intent", "analyze_results"}]_vars

C17_Witness ==
    /\ pc = END
    /\ Len(trail) = 6
    /\ ~SomeCallRaised
    /\ ~state.intent.is_database_related
    /\ state.schema_info = <<"orders">>
    /\ state.sql_query = <<"SELECT 1">>
    /\ state.analysis = <<"the analysis">>
    /\ state.visualization = "line"

\* All six collaborators were called and returned.
SuccessPath == pc = END /\ Len(calls) = 6 /\ ~SomeCallRaised

\* What C18 says of every call but the Result Analyzer's, and of the
\* returned state.
DataFlowButAnalyzer ==
    /\ calls[2].arg.schema_info = calls[1].ret
    /\ calls[3].arg.schema_info = calls[1].ret
    /\ calls[2].arg.question = state.question
    /\ calls[3].arg.question = state.question
    /\ calls[4].arg = calls[3].ret
    /\ calls[6].arg.df = calls[4].ret
    /\ state.schema_info = calls[1].ret
    /\ state.sql_query = calls[3].ret
    /\ state.query_results = calls[4].ret
    /\ state.analysis = calls[5].ret
    /\ state.visualization = calls[6].ret

\* C18 (as stated): on the success path the classifier and the generator
\* get the provider's schema, the executor gets the generator's SQL text,
\* the Result Analyzer and the Visualizer both get the executor's result,
\* and the returned fields are the collaborators' return values.
C18_DataFlowAsStated ==
    SuccessPath => (DataFlowButAnalyzer /\ calls[5].arg.data = calls[4].ret)

\* C18 (amended): as stated, except that the Result Analyzer gets the
\* to_string() rendering of the executor's result, not the result.
C18_DataFlow ==
    SuccessPath => (DataFlowButAnalyzer /\ calls[5].arg.data = to_string(calls[4].ret))

C18_Witness ==
    /\ SuccessPath
    /\ calls[1].ret = <<"customers", "orders">>
    /\ calls[4].arg = <<"SELECT 1">>
    /\ calls[5].arg.data = [rows |-> 51, ncols |-> 3]
    /\ calls[6].ret = "scatter"

Running == pc \notin {"idle", END, "exception"}

\* C19: termination: an invocation runs at most six nodes, none of them
\* twice, starting with get_schema, and (every collaborator call returning
\* or raising) it reaches End.
C19_Termination ==
    /\ [](/\ Len(trail) <= 6
          /\ \A i, j \in 1..Len(trail) : trail[i] = trail[j] => i = j
          /\ trail # <<>> => trail[1] = "get_schema")
    /\ (Running ~> pc = END)

C19_Witness ==
    /\ pc = END
    /\ trail = <<"get_schema", "classify_intent", "generate_sql", "execute_query",
                 "analyze_results", "create_visualization">>

\* The stage's collaborator was called in this invocation and returned.
RanSuccessfully(who) ==
    \E i \in 1..Len(calls) : calls[i].who = who /\ ~calls[i].raised

\* C20: outcome consistency of the returned state: with error non-empty,
\* visualization is not set; visualization is set only if error is empty and
\* GenerateSQL, ExecuteQuery and AnalyzeResults all ran successfully in this
\* invocation; with error empty, either no downstream stage ran or all four
\* did.
C20_OutcomeConsistency ==
    pc = END =>
        /\ HasError(state) => state.visualization = None
        /\ state.visualization # None =>
              /\ ~HasError(state)
              /\ \A who \in {"QueryGenerator", "QueryExecutor", "ResultAnalyzer"} :
                    RanSuccessfully(who)
        /\ ~HasError(state) =>
              \/ /\ \A who \in Downstream : ~Called(who)
                 /\ \A i \in 1..Len(trail) : trail[i] \notin DownstreamNodes
              \/ /\ \A who \in Downstream : Called(who)
                 /\ \A n \in DownstreamNodes : \E i \in 1..Len(trail) : trail[i] = n

C20_Witness ==
    /\ pc = END
    /\ ~HasError(state)
    /\ state.visualization = "histogram"
    /\ \A who \in Downstream : RanSuccessfully(who)

\* df has a column of one of these dtypes.
HasColumn(df, kinds) == \E i \in 1..Len(df.cols) : df.cols[i] \in kinds

CountColumns(df, kinds) == Cardinality({i \in 1..Len(df.cols) : df.cols[i] \in kinds})

\* The chart the rules name for df, in their order.
ChartFor(df) ==
    IF df.rows = 0 THEN None
    ELSE IF HasColumn(df, {"datetime64"}) /\ HasColumn(df, {"number"}) THEN "line"
    ELSE IF /\ HasColumn(df, {"object", "category"})
            /\ HasColumn(df, {"number"})
            /\ df.rows <= 50 THEN "bar"
    ELSE IF CountColumns(df, {"number"}) >= 2 THEN "scatter"
    ELSE IF CountColumns(df, {"number"}) = 1 THEN "histogram"
    ELSE None

\* C21: auto_visualize returns no chart for an empty result whatever its
\* columns; for a non-empty result it applies the first matching rule in
\* the order line (a datetime and a numeric column), bar (a categorical and
\* a numeric column, at most 50 rows), scatter (two or more numeric
\* columns), histogram (exactly one numeric column), else no chart.  No
\* chart is not a failure: create_visualization then leaves error empty and
\* visualization absent.
C21_AutoVisualize ==
    /\ viz.pc = "called" =>
          /\ viz.result.kind = "return" => viz.result.val = ChartFor(viz.df)
          /\ viz.result.kind = "raise" => ChartFor(viz.df) # None /\ ~viz.vo.ok
          /\ viz.df.rows = 0 => viz.result = Return(None)
    /\ viz.pc = "staged" =>
          /\ ChartFor(viz.df) = None =>
                viz.st.error = <<>> /\ viz.st.visualization = None
          /\ viz.st.error = <<>> => viz.st.visualization = ChartFor(viz.df)

C21_Witness ==
    /\ viz.pc = "called"
    /\ viz.df = [rows |-> 50, cols |-> <<"datetime64", "object", "number">>]
    /\ viz.result = Return("line")

\* appended to ms: nothing, or a user message and then an assistant message
AppendedTo(ms, ms2) ==
    /\ Len(ms2) \in {Len(ms), Len(ms) + 2}
    /\ SubSeq(ms2, 1, Len(ms)) = ms
    /\ Len(ms2) = Len(ms) + 2 =>
          /\ ms2[Len(ms) + 1].role = "user"
          /\ ms2[Len(ms) + 2].role = "assistant"

\* C22: feedback session state of test_feedback.main, over any sequence of
\* Add Test Message, Submit Feedback i and rerun events: the widget is
\* offered for message i only if it is an assistant message with data and
\* msg_i is not in feedback_given; a submission adds msg_i to
\* feedback_given, after which the widget for i is never offered again, so
\* feedback is submitted at most once per message; feedback_given only
\* grows, messages is only appended to (user then assistant per add), and
\* every id in feedback_given refers to an existing assistant message.
C22_FeedbackSession ==
    /\ [](/\ \A i, j \in 1..Len(session.submitted) :
                session.submitted[i] = session.submitted[j] => i = j
          /\ \A i \in 1..Len(session.submitted) :
                message_id(session.submitted[i]) \in FeedbackGiven(session.session_state)
          /\ \A id \in FeedbackGiven(session.session_state) :
                \E i \in 0..(Len(Messages(session.session_state)) - 1) :
                   /\ id = message_id(i)
                   /\ Messages(session.session_state)[i + 1].role = "assistant")
    /\ [][/\ \A i \in session'.offered :
                /\ i < Len(Messages(session'.session_state))
                /\ Messages(session'.session_state)[i + 1].role = "assistant"
                /\ "data" \in DOMAIN Messages(session'.session_state)[i + 1]
                /\ message_id(i) \notin FeedbackGiven(session.session_state)
          /\ FeedbackGiven(session.session_state)
                \subseteq FeedbackGiven(session'.session_state)
          /\ AppendedTo(Messages(session.session_state),
                        Messages(session'.session_state))]_vars

C22_Witness ==
    /\ session.pc = "waiting"
    /\ Len(Messages(session.session_state)) = 4
    /\ FeedbackGiven(session.session_state) = {message_id(1)}
    /\ session.submitted = <<1>>
    /\ session.offered = {3}

\* C23: construction of the fallback LLMHandler: the direct OpenAI client
\* is attempted only after the LangChain initialisation failed;
\* construction succeeds iff at least one of the two succeeds, and raises
\* otherwise; after construction use_langchain is true iff the LangChain
\* initialisation succeeded, and every later generate_sql_query or
\* analyze_data call goes down the LangChain path iff use_langchain is true,
\* which never changes.
C23_Construction ==
    /\ [](built.pc # "new" =>
             /\ built.attempts[1] = "ChatOpenAI"
             /\ (\E i \in 1..Len(built.attempts) : built.attempts[i] = "OpenAI")
                   <=> ~built.lc.ok
             /\ built.pc = "ready" <=> (built.lc.ok \/ (~built.lc.ok /\ built.oa.ok))
             /\ built.pc = "failed" <=> (~built.lc.ok /\ ~built.oa.ok)
             /\ built.pc = "ready" =>
                   /\ built.self.langchain <=> built.lc.ok
                   /\ \A i \in 1..Len(built.dispatched) :
                         /\ built.dispatched[i].use_langchain = built.self.langchain
                         /\ built.dispatched[i].path = "langchain"
                               <=> built.dispatched[i].use_langchain
                         /\ built.dispatched[i].path \in {"langchain", "direct"})
    /\ [][built.pc = "ready" => built'.self = built.self]_vars

C23_Witness ==
    /\ built.pc = "ready"
    /\ ~built.lc.ok
    /\ built.attempts = <<"ChatOpenAI", "OpenAI">>
    /\ ~built.self.langchain
    /\ Len(built.dispatched) = 2
    /\ built.dispatched[1].method = "generate_sql_query"
    /\ built.dispatched[2].method = "analyze_data"
    /\ built.dispatched[2].path = "direct"

MaxChars == trunc.max_context_tokens * 3

\* The result is the first k characters of the input and the note that
\* reports k and the input's length.
KeepsPrefix(k) ==
    trunc.result = SubSeq(trunc.data, 1, k) \o Note(k, Len(trunc.data))

\* The first k characters are what the cut keeps: all max_chars of them,
\* or those before the last line break among them when that line break
\* lies beyond 80% of max_chars.
CutAt(k) ==
    \/ /\ k = MaxChars
       /\ \A i \in 1..MaxChars : trunc.data[i] = "\n" => ~(10 * (i - 1) > 8 * MaxChars)
    \/ /\ k < MaxChars
       /\ 10 * k > 8 * MaxChars
       /\ trunc.data[k + 1] = "\n"
       /\ \A i \in (k + 2)..MaxChars : trunc.data[i] # "\n"

Truncated ==
    \E k \in 0..MaxChars :
       /\ KeepsPrefix(k)
       /\ CutAt(k)
       /\ k = MaxChars \/ 10 * k > 8 * MaxChars

\* C24 as stated: the input comes back unchanged iff its length is at most
\* max_chars; otherwise the result is the kept prefix and the note.
C24_TruncationAsStated ==
    trunc.pc = "done" =>
        /\ trunc.result = trunc.data <=> Len(trunc.data) <= MaxChars
        /\ Len(trunc.data) > MaxChars => Truncated

\* C24 (amended): the input comes back unchanged if its length is at most
\* max_chars; otherwise the result is a prefix of the input of at most
\* max_chars characters (cut back to the last line break only when that
\* lies beyond 80% of max_chars, so longer than 0.8 * max_chars or exactly
\* max_chars) followed by the note reporting the kept and total counts;
\* that result differs from the input unless the input already ends in
\* that very note.
C24_Truncation ==
    trunc.pc = "done" =>
        /\ Len(trunc.data) <= MaxChars => trunc.result = trunc.data
        /\ Len(trunc.data) > MaxChars =>
              /\ Truncated
              /\ trunc.result = trunc.data =>
                    \E k \in 0..MaxChars :
                       /\ Len(trunc.data) = k + Len(Note(k, Len(trunc.data)))
                       /\ SubSeq(trunc.data, k + 1, Len(trunc.data))
                             = Note(k, Len(trunc.data))

C24_Witness ==
    /\ trunc.pc = "done"
    /\ trunc.max_context_tokens = 5
    /\ trunc.data = [i \in 1..16 |-> IF i = 14 THEN "\n" ELSE "a"]
    /\ trunc.result = [i \in 1..13 |-> "a"] \o Note(13, 16)

====
